---- MODULE Spec2Model ----
(***************************************************************************)
(* Model of pytrajectory's integrator-chain finder                         *)
(* (pytrajectory_new/auxiliary.py: IntegChain, find_integrator_chains)     *)
(* and of its Levenberg-Marquardt solver (pytrajectory/solver.py: Solver). *)
(*                                                                         *)
(* SpecChains runs find_integrator_chains on every vector field built from *)
(* a small expression alphabet; SpecSolver runs Solver.solve() on scalar   *)
(* systems (len(x0) = 1, where the 2-norm is the absolute value) in exact  *)
(* rational arithmetic.                                                    *)
(***************************************************************************)
EXTENDS Integers, Sequences, FiniteSets, TLC

VARIABLES
    \* ---- find_integrator_chains ----
    x_sym,      \* argument: list of state symbols
    u_sym,      \* argument: list of input symbols
    fi,         \* argument: list of expressions, normalised in place
    fi_in,      \* the list fi as it was passed in (history)
    chaindict,  \* dict symbol -> symbol
    uppers,     \* list of upper ends
    dictchain,  \* the flipped dict
    tmpchains,  \* list of finished temporary chains
    tmpchain,   \* the temporary chain under construction
    vv,         \* walk cursor
    chains,     \* list of IntegChain objects
    eqind,      \* list of equation indices (0-based)
    cpc,        \* position in find_integrator_chains
    ci,         \* loop index of the scan / of the loop over uppers
    \* ---- Solver ----
    self,       \* the Solver object: F, DF, x0, tol, reltol, maxx, algo, sol
    args,       \* the constructor arguments (history)
    pc,         \* position in solve() / leven()
    i,          \* leven: iteration counter
    x,          \* leven: current iterate
    res,        \* leven: residual norm
    res_alt,    \* leven: previous residual norm
    mu,         \* leven: damping parameter
    roh,        \* leven: reduction ratio
    Fx,         \* leven: F(x) of the current outer iteration
    DFx,        \* leven: DF(x) of the current outer iteration
    s,          \* leven: step of the last damping pass
    normFx,     \* leven: norm(Fx) of the last damping pass
    npass,      \* damping passes made in the current outer iteration (history)
    out,        \* the lines log.msg wrote to sys.stdout
    mark,       \* len(out) when the running solve() call started (history)
    results     \* the values the finished solve() calls returned (history)

chainVars == <<x_sym, u_sym, fi, fi_in, chaindict, uppers, dictchain,
               tmpchains, tmpchain, vv, chains, eqind, cpc, ci>>

solverVars == <<self, args, pc, i, x, res, res_alt, mu, roh, Fx, DFx, s,
                normFx, npass, out, mark, results>>

vars == <<chainVars, solverVars>>

(***************************************************************************)
(* Bounds of the model.                                                    *)
(***************************************************************************)
MaxN == 3       \* largest number of state variables explored

MaxCalls == 2   \* solve() calls made on one Solver object

(***************************************************************************)
(* Sequence helpers.                                                       *)
(***************************************************************************)
Range(sq) == {sq[k] : k \in 1..Len(sq)}

NoDup(sq) == \A a, b \in 1..Len(sq) : sq[a] = sq[b] => a = b

(***************************************************************************)
(* Symbols and expressions.  A symbol is its name: a letter and a number   *)
(* ("x2", "u1").  An expression is a bare symbol, a product coeff*symbol   *)
(* with a float coefficient, any other sympy expression, or a plain python *)
(* number (not an sp.Basic).                                               *)
(***************************************************************************)
Symbol(l, k) == [letter |-> l, num |-> k]

NoSym == Symbol("-", 0)

XSyms(n) == [k \in 1..n |-> Symbol("x", k)]

USyms(m) == [k \in 1..m |-> Symbol("u", k)]

SymExpr(sy) == [kind |-> "Symbol", coeff |-> "1", sym |-> sy]

MulExpr(c, sy) == [kind |-> "Mul", coeff |-> c, sym |-> sy]

OtherExpr == [kind |-> "Other", coeff |-> "1", sym |-> NoSym]

NumberExpr == [kind |-> "Number", coeff |-> "1", sym |-> NoSym]

\* the expressions an equation is drawn from
Exprs(xs, us) ==
    {SymExpr(sy) : sy \in Range(xs) \cup Range(us)}
        \cup {MulExpr("1.0", sy) : sy \in Range(xs) \cup Range(us)}
        \cup {MulExpr("2.0", xs[1]), OtherExpr, NumberExpr}

\* isinstance(e, sp.Basic)
IsBasic(e) == e.kind # "Number"

\* e.subs(1.0, 1): the float 1.0 becomes the integer 1, and 1*sym is sym
Subs1(e) ==
    IF e.kind = "Mul" /\ e.coeff = "1.0" THEN SymExpr(e.sym) ELSE e

\* sym.name.startswith(ch)
NameStartsWith(sy, ch) == sy.letter = ch

\* list.index(v): 0-based position of the first occurrence
Index(sq, v) == (CHOOSE k \in 1..Len(sq) : sq[k] = v /\ \A j \in 1..(k-1) : sq[j] # v) - 1

\* range(n) as a list
RangeList(n) == [k \in 1..n |-> k - 1]

\* sorted list of a set of integers
RECURSIVE SortedSeq(_)
SortedSeq(S) ==
    IF S = {} THEN <<>>
    ELSE LET mn == CHOOSE a \in S : \A b \in S : a <= b
         IN  <<mn>> \o SortedSeq(S \ {mn})

\* dict assignment d[k] = v
DictSet(d, k, v) == [j \in (DOMAIN d) \cup {k} |-> IF j = k THEN v ELSE d[j]]

EmptyDict == [j \in {} |-> NoSym]

\* d.values() as a set
Values(d) == {d[k] : k \in DOMAIN d}

\* all orderings of a finite set, as lists
Orderings(S) == {sq \in [1..Cardinality(S) -> S] : NoDup(sq)}

(***************************************************************************)
(* IntegChain(lst)                                                         *)
(***************************************************************************)
\* variant: the two ends exchanged
IntegChain_EndsSwapped(lst) ==
    [elements |-> lst, upper |-> lst[Len(lst)], lower |-> lst[1]]

IntegChain(lst) ==
    [elements |-> lst, upper |-> lst[1], lower |-> lst[Len(lst)]]

(***************************************************************************)
(* find_integrator_chains, loop body for equation i (1-based here):        *)
(* normalise fi[i], then record chaindict[s] = x_sym[i] for the symbol s   *)
(* that fi[i] equals.                                                      *)
(***************************************************************************)
NormalizeEq(e) == IF IsBasic(e) THEN Subs1(e) ELSE e

\* variant: the entry recorded the other way round, chaindict[x_sym[i]] = s
ScanEntry_Swapped(cd, e, xs, us, idx) ==
    LET hit == {sy \in Range(xs) \cup Range(us) : e = SymExpr(sy)}
    IN  IF hit = {} THEN cd
        ELSE DictSet(cd, xs[idx], CHOOSE sy \in hit : TRUE)

ScanEntry(cd, e, xs, us, idx) ==
    LET hit == {sy \in Range(xs) \cup Range(us) : e = SymExpr(sy)}
    IN  IF hit = {} THEN cd
        ELSE DictSet(cd, CHOOSE sy \in hit : TRUE, xs[idx])

\* variant: every value starts a chain
UpperSet_AllValues(cd) == Values(cd)

\* upper ends: values of chaindict that are not keys
UpperSet(cd) == {v \in Values(cd) : v \notin DOMAIN cd}

\* {v:k for k,v in chaindict.items()}
Flip(cd) == [v \in Values(cd) |-> CHOOSE k \in DOMAIN cd : cd[k] = v]

\* variant: no fallback to all indices when chains exist
EqindOf_NoFallback(chs, xs) ==
    LET n == Len(xs)
        picked == {Index(xs, chs[c].lower) :
                      c \in {c \in 1..Len(chs) : NameStartsWith(chs[c].lower, "x")}}
    IN  IF chs # <<>> THEN SortedSeq(picked) ELSE RangeList(n)

\* the equations to solve by collocation
EqindOf(chs, xs) ==
    LET n == Len(xs)
        picked == {Index(xs, chs[c].lower) :
                      c \in {c \in 1..Len(chs) : NameStartsWith(chs[c].lower, "x")}}
    IN  IF chs # <<>>
        THEN IF picked = {} THEN RangeList(n) ELSE SortedSeq(picked)
        ELSE RangeList(n)

(***************************************************************************)
(* Numbers.  A float is modelled by the exact rational n/d (d > 0, lowest  *)
(* terms) times 10^e; e is 0 except in the literal 1e10.  d = 0 encodes    *)
(* the results of a division by zero: nan (n = 0), inf (n = 1) and         *)
(* -inf (n = -1).                                                          *)
(***************************************************************************)
Abs(a) == IF a < 0 THEN -a ELSE a

RECURSIVE GCD(_, _)
GCD(a, b) == IF b = 0 THEN a ELSE GCD(b, a % b)

Rat(n, d) ==
    LET g == GCD(Abs(n), d)
    IN  [n |-> n \div g, d |-> d \div g, e |-> 0]

NaN == [n |-> 0, d |-> 0, e |-> 0]

Inf(sign) == [n |-> sign, d |-> 0, e |-> 0]

IsNaN(p) == p.d = 0 /\ p.n = 0

RNeg(p) == [p EXCEPT !.n = -p.n]

RAbs(p) == [p EXCEPT !.n = Abs(p.n)]

RAdd(p, q) ==
    LET g == GCD(p.d, q.d)
    IN  Rat(p.n * (q.d \div g) + q.n * (p.d \div g), (p.d \div g) * q.d)

RSub(p, q) == RAdd(p, RNeg(q))

RMul(p, q) ==
    LET g1 == GCD(Abs(p.n), q.d)
        g2 == GCD(Abs(q.n), p.d)
    IN  Rat((p.n \div g1) * (q.n \div g2), (p.d \div g2) * (q.d \div g1))

\* float division: x/0 is nan, inf or -inf
RDiv(p, q) ==
    IF q.n = 0
    THEN IF p.n = 0 THEN NaN ELSE Inf(IF p.n > 0 THEN 1 ELSE -1)
    ELSE RMul(p, IF q.n > 0 THEN [n |-> q.d, d |-> q.n, e |-> 0]
                            ELSE [n |-> -q.d, d |-> -q.n, e |-> 0])

\* float comparisons: every comparison with nan is false
RLess(p, q) ==
    /\ ~IsNaN(p)
    /\ ~IsNaN(q)
    /\ LET g == GCD(p.d, q.d)
       IN  p.n * (q.d \div g) < q.n * (p.d \div g)

RLeq(p, q) == ~IsNaN(p) /\ ~IsNaN(q) /\ (p = q \/ RLess(p, q))

RGeq(p, q) == RLeq(q, p)

\* comparisons of an ordinary number t with the power of ten 10^k
RECURSIVE DivPow10(_, _)
DivPow10(a, k) == IF k = 0 THEN a ELSE DivPow10(a \div 10, k - 1)

RECURSIVE IsPow10(_, _)
IsPow10(a, k) == IF k = 0 THEN a = 1 ELSE a % 10 = 0 /\ IsPow10(a \div 10, k - 1)

LessPow10(t, k) == t.n < 0 \/ DivPow10(t.n \div t.d, k) = 0

GreaterPow10(t, k) == ~LessPow10(t, k) /\ ~(t.d = 1 /\ IsPow10(t.n, k))

\* abs(a - b) > r, where b may be a literal 1*10^e
AbsDiffExceeds(a, b, r) ==
    IF b.e = 0
    THEN RLess(r, RAbs(RSub(a, b)))
    ELSE LessPow10(RAdd(a, r), b.e) \/ GreaterPow10(RSub(a, r), b.e)

(***************************************************************************)
(* Arrays of length 1 and the callables F and DF.  F and DF are given by   *)
(* polynomial coefficients: value c2*x^2 + c1*x + c0.                      *)
(***************************************************************************)
Poly(c2, c1, c0) == [c2 |-> c2, c1 |-> c1, c0 |-> c0]

PolyAt(f, t) == RAdd(RAdd(RMul(f.c2, RMul(t, t)), RMul(f.c1, t)), f.c0)

\* F(x): array -> array
CallF(f, v) == [k \in 1..Len(v) |-> PolyAt(f, v[k])]

\* DF(x): array -> 1x1 matrix
CallDF(df, v) == PolyAt(df, v[1])

VAdd(v, w) == [k \in 1..Len(v) |-> RAdd(v[k], w[k])]

\* numpy.linalg.norm of an array of length 1
Norm(v) == RAbs(v[1])

None == [none |-> TRUE, val |-> <<>>]

Some(v) == [none |-> FALSE, val |-> v]

\* log.msg(label, text)
Msg(label, text) == [label |-> label, text |-> text]

(***************************************************************************)
(* Solver.leven: constants, loop conditions and the damping pass.          *)
(***************************************************************************)
b0 == Rat(1, 5)

b1 == Rat(4, 5)

mu0 == Rat(1, 10)

res0 == Rat(1, 1)

res_alt0 == [n |-> 1, d |-> 1, e |-> 10]

roh0 == Rat(0, 1)

\* variant: the warning is not written
UnimplementedMsgs_NoWarn(al) ==
    <<Msg("INFO:", IF al = "newton" THEN "Run Newton solver" ELSE "Run Gauss solver")>>

\* log.info("Run Newton solver") ; log.warn(" ... not implemented")
UnimplementedMsgs(al) ==
    <<Msg("INFO:", IF al = "newton" THEN "Run Newton solver" ELSE "Run Gauss solver"),
      Msg("WARN:", " ... not implemented")>>

\* variant: a later call starts from the solution of the call before
LevenStart_Warm(sf) == IF sf.sol = None THEN sf.x0 ELSE sf.sol.val

\* x = self.x0
LevenStart(sf) == sf.x0

\* variant: (self.maxx >= i)
OuterCond_Leq(sf, r, ra, it) ==
    /\ RLess(sf.tol, r)
    /\ sf.maxx >= it
    /\ AbsDiffExceeds(r, ra, sf.reltol)

\* while((res > self.tol) and (self.maxx > i) and (abs(res-res_alt) > self.reltol))
OuterCond(sf, r, ra, it) ==
    /\ RLess(sf.tol, r)
    /\ sf.maxx > it
    /\ AbsDiffExceeds(r, ra, sf.reltol)

\* while (roh < b0)
InnerCond(rh) == RLess(rh, b0)

\* A = DFx.T.dot(DFx) + mu**2*eye ; b = DFx.T.dot(Fx) ; s = -solve(A, b)
StepOf(dfx, fx, m) ==
    LET A == RAdd(RMul(dfx, dfx), RMul(m, m))
        b == RMul(dfx, fx[1])
    IN  <<RNeg(RDiv(b, A))>>

\* roh = (normFx**2 - normFxs**2) / (normFx**2 - (norm(Fx+DFx.dot(s)))**2)
RohOf(fx, fxs, dfx, st) ==
    LET nFx  == Norm(fx)
        nFxs == Norm(fxs)
        nLin == Norm(VAdd(fx, <<RMul(dfx, st[1])>>))
    IN  RDiv(RSub(RMul(nFx, nFx), RMul(nFxs, nFxs)),
             RSub(RMul(nFx, nFx), RMul(nLin, nLin)))

\* variant: the damping is relaxed from b0 on
MuUpdate_RelaxEarly(m, rh) ==
    LET m1 == IF RLeq(rh, b0) THEN RMul(Rat(2, 1), m) ELSE m
    IN  IF RGeq(rh, b0) THEN RMul(Rat(1, 2), m1) ELSE m1

\* if (roh<=b0): mu = 2.0*mu ; if (roh>=b1): mu = 0.5*mu
MuUpdate(m, rh) ==
    LET m1 == IF RLeq(rh, b0) THEN RMul(Rat(2, 1), m) ELSE m
    IN  IF RGeq(rh, b1) THEN RMul(Rat(1, 2), m1) ELSE m1

\* variant: the residual of the candidate point
ResOf_AfterStep(nFx, fxs) == Norm(fxs)

\* res = normFx
ResOf(nFx, fxs) == nFx

\* the value solve() returns after the dispatch
ReturnOf(sf) == IF sf.sol = None THEN sf.x0 ELSE sf.sol.val

(***************************************************************************)
(* The states in which one of the two programs is not running.             *)
(***************************************************************************)
NoArgs == [F |-> Poly(Rat(0, 1), Rat(0, 1), Rat(0, 1)),
           DF |-> Poly(Rat(0, 1), Rat(0, 1), Rat(0, 1)),
           x0 |-> <<Rat(0, 1)>>, tol |-> Rat(1, 100), maxx |-> 0, algo |-> "-"]

NewSolver(a) ==
    [F |-> a.F, DF |-> a.DF, x0 |-> a.x0, tol |-> a.tol, reltol |-> a.tol,
     maxx |-> a.maxx, algo |-> a.algo, sol |-> None]

FreshLocals ==
    /\ i = 0
    /\ x = <<Rat(0, 1)>>
    /\ res = Rat(0, 1)
    /\ res_alt = Rat(0, 1)
    /\ mu = Rat(0, 1)
    /\ roh = Rat(0, 1)
    /\ Fx = <<Rat(0, 1)>>
    /\ DFx = Rat(0, 1)
    /\ s = <<Rat(0, 1)>>
    /\ normFx = Rat(0, 1)
    /\ npass = 0

SolverParked ==
    /\ args = NoArgs
    /\ self = NewSolver(NoArgs)
    /\ pc = "parked"
    /\ FreshLocals
    /\ out = <<>>
    /\ mark = 0
    /\ results = <<>>

ChainsParked ==
    /\ x_sym = <<>>
    /\ u_sym = <<>>
    /\ fi = <<>>
    /\ fi_in = <<>>
    /\ chaindict = EmptyDict
    /\ uppers = <<>>
    /\ dictchain = EmptyDict
    /\ tmpchains = <<>>
    /\ tmpchain = <<>>
    /\ vv = NoSym
    /\ chains = <<>>
    /\ eqind = <<>>
    /\ cpc = "parked"
    /\ ci = 0

(***************************************************************************)
(* Initial states: the call find_integrator_chains(fi, x_sym, u_sym) with  *)
(* len(fi) = len(x_sym).                                                   *)
(***************************************************************************)
InitChains ==
    /\ \E n \in 1..MaxN, m \in 0..1 :
          /\ x_sym = XSyms(n)
          /\ u_sym = USyms(m)
          /\ fi \in [1..n -> Exprs(XSyms(n), USyms(m))]
    /\ fi_in = fi
    /\ chaindict = EmptyDict
    /\ uppers = <<>>
    /\ dictchain = EmptyDict
    /\ tmpchains = <<>>
    /\ tmpchain = <<>>
    /\ vv = NoSym
    /\ chains = <<>>
    /\ eqind = <<>>
    /\ cpc = "scan"
    /\ ci = 1
    /\ SolverParked

\* for i in xrange(len(fi)): one pass of the loop body
Scan ==
    /\ cpc = "scan"
    /\ ci <= Len(fi)
    /\ LET e == NormalizeEq(fi[ci])
       IN  /\ fi' = [fi EXCEPT ![ci] = e]
           /\ chaindict' = ScanEntry(chaindict, e, x_sym, u_sym, ci)
    /\ ci' = ci + 1
    /\ UNCHANGED <<x_sym, u_sym, fi_in, uppers, dictchain, tmpchains,
                   tmpchain, vv, chains, eqind, cpc>>
    /\ UNCHANGED solverVars

\* the loop over chaindict.values() (in the dict's own order) and the flip
FindUppers ==
    /\ cpc = "scan"
    /\ ci > Len(fi)
    /\ uppers' \in Orderings(UpperSet(chaindict))
    /\ dictchain' = Flip(chaindict)
    /\ cpc' = "chains"
    /\ ci' = 1
    /\ UNCHANGED <<x_sym, u_sym, fi, fi_in, chaindict, tmpchains, tmpchain,
                   vv, chains, eqind>>
    /\ UNCHANGED solverVars

\* for var in uppers: tmpchain = [var]
StartChain ==
    /\ cpc = "chains"
    /\ ci <= Len(uppers)
    /\ vv' = uppers[ci]
    /\ tmpchain' = <<uppers[ci]>>
    /\ cpc' = "walk"
    /\ UNCHANGED <<x_sym, u_sym, fi, fi_in, chaindict, uppers, dictchain,
                   tmpchains, chains, eqind, ci>>
    /\ UNCHANGED solverVars

\* while dictchain.has_key(vv): vv = dictchain[vv]; tmpchain.append(vv)
WalkStep ==
    /\ cpc = "walk"
    /\ vv \in DOMAIN dictchain
    /\ vv' = dictchain[vv]
    /\ tmpchain' = Append(tmpchain, dictchain[vv])
    /\ UNCHANGED <<x_sym, u_sym, fi, fi_in, chaindict, uppers, dictchain,
                   tmpchains, chains, eqind, cpc, ci>>
    /\ UNCHANGED solverVars

\* the walk ends: tmpchains.append(tmpchain)
EndChain ==
    /\ cpc = "walk"
    /\ vv \notin DOMAIN dictchain
    /\ tmpchains' = Append(tmpchains, tmpchain)
    /\ ci' = ci + 1
    /\ cpc' = "chains"
    /\ UNCHANGED <<x_sym, u_sym, fi, fi_in, chaindict, uppers, dictchain,
                   tmpchain, vv, chains, eqind>>
    /\ UNCHANGED solverVars

\* wrap the temporary chains, determine eqind, return
Finish ==
    /\ cpc = "chains"
    /\ ci > Len(uppers)
    /\ chains' = [c \in 1..Len(tmpchains) |-> IntegChain(tmpchains[c])]
    /\ eqind' = EqindOf([c \in 1..Len(tmpchains) |-> IntegChain(tmpchains[c])], x_sym)
    /\ cpc' = "done"
    /\ UNCHANGED <<x_sym, u_sym, fi, fi_in, chaindict, uppers, dictchain,
                   tmpchains, tmpchain, vv, ci>>
    /\ UNCHANGED solverVars

NextChains == Scan \/ FindUppers \/ StartChain \/ WalkStep \/ EndChain \/ Finish

SpecChains == InitChains /\ [][NextChains]_vars

(***************************************************************************)
(* Solver: the inputs explored.                                            *)
(***************************************************************************)
\* F(x) = m*x - c with its jacobian DF(x) = m
Linear(m, c) == [F |-> Poly(Rat(0, 1), m, RNeg(c)), DF |-> Poly(Rat(0, 1), Rat(0, 1), m)]

\* F(x) = m*x - c with a caller-supplied DF(x) = d that is not the jacobian
Synthetic(m, c, d) == [F |-> Poly(Rat(0, 1), m, RNeg(c)), DF |-> Poly(Rat(0, 1), Rat(0, 1), d)]

\* F(x) = x^2 - c with its jacobian DF(x) = 2x
Quadratic(c) == [F |-> Poly(Rat(1, 1), Rat(0, 1), RNeg(c)), DF |-> Poly(Rat(0, 1), Rat(2, 1), Rat(0, 1))]

\* the systems solved, each with its initial guess x0
At(sys, st) == [F |-> sys.F, DF |-> sys.DF, x0 |-> <<st>>]

Problems ==
    {At(Linear(Rat(1, 10), Rat(1, 1)), Rat(0, 1)),
     At(Linear(Rat(1, 10), Rat(1, 1)), Rat(10, 1)),
     At(Linear(Rat(3, 10), Rat(2, 1)), Rat(0, 1)),
     At(Linear(Rat(3, 10), Rat(2, 1)), Rat(10, 1)),
     At(Synthetic(Rat(1, 6), Rat(-4, 1), Rat(3, 10)), Rat(0, 1)),
     At(Synthetic(Rat(1, 1), Rat(1, 1), Rat(1, 5)), Rat(1, 10)),
     At(Synthetic(Rat(1, 1), Rat(1, 1), Rat(1, 5)), Rat(10, 1)),
     At(Quadratic(Rat(1, 1)), Rat(1, 10)),
     At(Quadratic(Rat(1, 1)), Rat(0, 1))}

Tols == {Rat(1, 100), Rat(1, 2), Rat(2, 1)}

Maxxs == {0, 1, 2, 10, 50}

Algos == {"leven", "newton", "gauss", "lm"}

\* solver = Solver(F, DF, x0, tol, maxx, algo)
InitSolver ==
    /\ \E pb \in Problems, tl \in Tols, mx \in Maxxs, al \in Algos :
          args = [F |-> pb.F, DF |-> pb.DF, x0 |-> pb.x0, tol |-> tl,
                  maxx |-> mx, algo |-> al]
    /\ self = NewSolver(args)
    /\ pc = "idle"
    /\ FreshLocals
    /\ out = <<>>
    /\ mark = 0
    /\ results = <<>>
    /\ ChainsParked

\* solve(), algo 'newton' or 'gauss': info, warning, return self.x0
SolveUnimplemented ==
    /\ pc = "idle"
    /\ Len(results) < MaxCalls
    /\ self.algo \in {"newton", "gauss"}
    /\ mark' = Len(out)
    /\ out' = out \o UnimplementedMsgs(self.algo)
    /\ results' = Append(results, self.x0)
    /\ UNCHANGED <<self, args, pc, i, x, res, res_alt, mu, roh, Fx, DFx, s,
                   normFx, npass>>
    /\ UNCHANGED chainVars

\* solve(), algo 'leven': info, enter leven() and initialise its locals
SolveLeven ==
    /\ pc = "idle"
    /\ Len(results) < MaxCalls
    /\ self.algo = "leven"
    /\ mark' = Len(out)
    /\ out' = Append(out, Msg("INFO:", "Run Levenberg-Marquardt method"))
    /\ i' = 0
    /\ x' = LevenStart(self)
    /\ res' = res0
    /\ res_alt' = res_alt0
    /\ mu' = mu0
    /\ roh' = roh0
    /\ npass' = 0
    /\ pc' = "outer"
    /\ UNCHANGED <<self, args, Fx, DFx, s, normFx, results>>
    /\ UNCHANGED chainVars

\* solve(), any other algo: no branch of the dispatch is taken
SolveOther ==
    /\ pc = "idle"
    /\ Len(results) < MaxCalls
    /\ self.algo \notin {"newton", "gauss", "leven"}
    /\ mark' = Len(out)
    /\ pc' = "ret"
    /\ UNCHANGED <<self, args, i, x, res, res_alt, mu, roh, Fx, DFx, s,
                   normFx, npass, out, results>>
    /\ UNCHANGED chainVars

\* leven(): the outer loop is entered: i += 1, Fx = F(x), DFx = DF(x)
OuterEnter ==
    /\ pc = "outer"
    /\ OuterCond(self, res, res_alt, i)
    /\ i' = i + 1
    /\ Fx' = CallF(self.F, x)
    /\ DFx' = CallDF(self.DF, x)
    /\ npass' = 0
    /\ pc' = "inner"
    /\ UNCHANGED <<self, args, x, res, res_alt, mu, roh, s, normFx, out, mark,
                   results>>
    /\ UNCHANGED chainVars

\* leven(): the outer loop is left: self.sol = x
OuterExit ==
    /\ pc = "outer"
    /\ ~OuterCond(self, res, res_alt, i)
    /\ self' = [self EXCEPT !.sol = Some(x)]
    /\ pc' = "ret"
    /\ UNCHANGED <<args, i, x, res, res_alt, mu, roh, Fx, DFx, s, normFx, npass,
                   out, mark, results>>
    /\ UNCHANGED chainVars

\* leven(): one pass of the damping search
DampingPass ==
    /\ pc = "inner"
    /\ InnerCond(roh)
    /\ LET st  == StepOf(DFx, Fx, mu)
           fxs == CallF(self.F, VAdd(x, st))
           rh  == RohOf(Fx, fxs, DFx, st)
       IN  /\ s' = st
           /\ normFx' = Norm(Fx)
           /\ roh' = rh
           /\ mu' = MuUpdate(mu, rh)
    /\ npass' = npass + 1
    /\ UNCHANGED <<self, args, pc, i, x, res, res_alt, Fx, DFx, out, mark, results>>
    /\ UNCHANGED chainVars

\* leven(): the damping search is left and the step is committed
Commit ==
    /\ pc = "inner"
    /\ ~InnerCond(roh)
    /\ roh' = roh0
    /\ x' = VAdd(x, s)
    /\ res_alt' = res
    /\ res' = ResOf(normFx, CallF(self.F, VAdd(x, s)))
    /\ out' = Append(out, Msg("INFO:", "nIt= %d    res= %f"))
    /\ pc' = "outer"
    /\ UNCHANGED <<self, args, i, mu, Fx, DFx, s, normFx, npass, mark, results>>
    /\ UNCHANGED chainVars

\* solve(): if (self.sol == None): warn, return self.x0, else return self.sol
SolveReturn ==
    /\ pc = "ret"
    /\ out' = IF self.sol = None THEN Append(out, Msg("WARN:", "Wrong solver")) ELSE out
    /\ results' = Append(results, ReturnOf(self))
    /\ pc' = "idle"
    /\ UNCHANGED <<self, args, i, x, res, res_alt, mu, roh, Fx, DFx, s, normFx,
                   npass, mark>>
    /\ UNCHANGED chainVars

NextSolver ==
    \/ SolveUnimplemented
    \/ SolveLeven
    \/ SolveOther
    \/ OuterEnter
    \/ OuterExit
    \/ DampingPass
    \/ Commit
    \/ SolveReturn

SpecSolver == InitSolver /\ [][NextSolver]_vars

(***************************************************************************)
(* Properties of find_integrator_chains.                                   *)
(***************************************************************************)
AllSyms == Range(x_sym) \cup Range(u_sym)

\* the derivative-identity relation: a is the state x_sym[j] and its
\* equation fi[j] is the bare symbol b
DerivEdge(a, b) == \E j \in 1..Len(x_sym) : x_sym[j] = a /\ fi[j] = SymExpr(b)

\* the edges that chaindict records: chaindict[b] = a
DictEdge(a, b) == b \in DOMAIN chaindict /\ chaindict[b] = a

RECURSIVE DerivReach(_, _)
DerivReach(S, k) ==
    IF k = 0 THEN S
    ELSE DerivReach({b \in AllSyms : \E a \in S : DerivEdge(a, b)}, k - 1)

RECURSIVE DictReach(_, _)
DictReach(S, k) ==
    IF k = 0 THEN S
    ELSE DictReach({b \in AllSyms : \E a \in S : DictEdge(a, b)}, k - 1)

OnDerivCycle(sy) == \E k \in 1..Cardinality(AllSyms) : sy \in DerivReach({sy}, k)

OnDictCycle(sy) == \E k \in 1..Cardinality(AllSyms) : sy \in DictReach({sy}, k)

ChainSyms(c) == Range(chains[c].elements)

\* the call of the example: x_sym = [x1,x2,x3], u_sym = [u1], fi = [x2,x3,u1]
ExampleCall ==
    /\ x_sym = XSyms(3)
    /\ u_sym = USyms(1)
    /\ fi_in = <<SymExpr(Symbol("x", 2)), SymExpr(Symbol("x", 3)), SymExpr(Symbol("u", 1))>>

\* C1 as stated: the example returns exactly one chain, ordered
\* [u1, x3, x2, x1] with upper = u1 and lower = x1, and eqind = [0].
C1_AsStated ==
    (ExampleCall /\ cpc = "done") =>
        /\ Len(chains) = 1
        /\ chains[1].elements = <<Symbol("u", 1), Symbol("x", 3), Symbol("x", 2), Symbol("x", 1)>>
        /\ chains[1].upper = Symbol("u", 1)
        /\ chains[1].lower = Symbol("x", 1)
        /\ eqind = <<0>>

\* C1 amended: the example returns exactly one chain, ordered
\* [x1, x2, x3, u1] with upper = x1 and lower = u1; its lower end is an
\* input, so eqind falls back to all indices [0, 1, 2].
C1_ExampleChain ==
    (ExampleCall /\ cpc = "done") =>
        /\ Len(chains) = 1
        /\ chains[1].elements = <<Symbol("x", 1), Symbol("x", 2), Symbol("x", 3), Symbol("u", 1)>>
        /\ chains[1].upper = Symbol("x", 1)
        /\ chains[1].lower = Symbol("u", 1)
        /\ eqind = <<0, 1, 2>>

C1_Witness == ExampleCall /\ cpc = "done" /\ Len(chains) = 1

\* C2: eqind is the full list 0..n-1 when no chain is detected and when
\* every detected chain has an input symbol as its lower end; eqind is
\* never empty (n > 0 in every call explored).
C2_EqindFallback ==
    cpc = "done" =>
        /\ chains = <<>> => eqind = RangeList(Len(x_sym))
        /\ (chains # <<>> /\ \A c \in 1..Len(chains) : chains[c].lower \in Range(u_sym))
              => eqind = RangeList(Len(x_sym))
        /\ eqind # <<>>

C2_Witness ==
    /\ cpc = "done"
    /\ Len(x_sym) >= 2
    /\ chains # <<>>
    /\ \A c \in 1..Len(chains) : chains[c].lower \in Range(u_sym)
    /\ eqind = RangeList(Len(x_sym))

\* C9: in every returned chain upper is the first and lower the last
\* element, and consecutive elements (a, b) satisfy the derivative-identity
\* relation: a is a state x_sym[j] whose equation fi[j] is the symbol b.
C9_ChainRelation ==
    cpc = "done" =>
        \A c \in 1..Len(chains) :
            LET el == chains[c].elements
            IN  /\ Len(el) >= 1
                /\ chains[c].upper = el[1]
                /\ chains[c].lower = el[Len(el)]
                /\ \A k \in 1..(Len(el) - 1) : DerivEdge(el[k], el[k + 1])

\* a chain through a symbol that two equations equal (the later equation
\* overwrote the earlier one in chaindict)
C9_Witness ==
    /\ cpc = "done"
    /\ \E c \in 1..Len(chains), j1, j2 \in 1..Len(fi) :
          /\ j1 < j2
          /\ fi[j1] = fi[j2]
          /\ fi[j1].kind = "Symbol"
          /\ fi[j1].sym \in ChainSyms(c)
          /\ Len(chains[c].elements) >= 2

WalkInv ==
    /\ NoDup(tmpchain)
    /\ Len(tmpchain) <= Len(x_sym) + Len(u_sym)
    /\ \A c \in 1..Len(tmpchains) : NoDup(tmpchains[c])
    /\ \A c, d \in 1..Len(tmpchains) :
          c # d => Range(tmpchains[c]) \cap Range(tmpchains[d]) = {}
    /\ cpc = "walk" =>
          \A c \in 1..Len(tmpchains) : Range(tmpchains[c]) \cap Range(tmpchain) = {}

\* C10 as stated: the walk is bounded (no symbol twice in a chain, no
\* symbol in two chains) and the symbols on a cycle of the derivative
\* relation start no chain and belong to no chain.
C10_AsStated ==
    /\ WalkInv
    /\ cpc = "done" =>
          \A sy \in AllSyms :
              OnDerivCycle(sy) => \A c \in 1..Len(chains) : sy \notin ChainSyms(c)

\* C10 amended: the walk is bounded (no symbol twice in a chain, no symbol
\* in two chains) and the symbols on a cycle of the recorded mapping
\* chaindict (after last-wins overwriting) start no chain and belong to no
\* chain.
C10_WalkTerminates ==
    /\ WalkInv
    /\ cpc = "done" =>
          \A sy \in AllSyms :
              OnDictCycle(sy) => \A c \in 1..Len(chains) : sy \notin ChainSyms(c)

\* a finished call with a cycle in chaindict next to a detected chain
C10_Witness ==
    /\ cpc = "done"
    /\ chains # <<>>
    /\ \E sy \in AllSyms : OnDictCycle(sy)

(***************************************************************************)
(* Properties of Solver.solve and Solver.leven.                            *)
(***************************************************************************)
Warnings(sq) == {k \in 1..Len(sq) : sq[k].label = "WARN:"}

\* the lines written since the running (or last) solve() call started
SinceMark == SubSeq(out, mark + 1, Len(out))

\* F is m*x - c with m # 0 and DF is its jacobian
IsLinearSystem(sf) ==
    /\ sf.F.c2 = Rat(0, 1)
    /\ sf.F.c1 # Rat(0, 1)
    /\ sf.DF = Poly(Rat(0, 1), Rat(0, 1), sf.F.c1)

\* a damping pass, and the step that leaves the damping search
PassStep == pc = "inner" /\ pc' = "inner" /\ npass' = npass + 1

LeaveStep == pc = "inner" /\ pc' = "outer"

\* C3: with algo 'newton' or 'gauss' solve() returns x0 unchanged, writes
\* exactly one warning per call and never runs the Levenberg-Marquardt
\* iteration.
C3_Unimplemented ==
    self.algo \in {"newton", "gauss"} =>
        /\ pc = "idle"
        /\ self.sol = None
        /\ i = 0 /\ npass = 0
        /\ \A k \in 1..Len(results) :
              results[k] = args.x0 /\ Len(results[k]) = Len(args.x0)
        /\ Cardinality(Warnings(out)) = Len(results)
        /\ Len(results) >= 1 => Cardinality(Warnings(SinceMark)) = 1
        /\ \A k \in 1..Len(out) :
              out[k].text \notin {"Run Levenberg-Marquardt method", "nIt= %d    res= %f"}

C3_Witness ==
    /\ self.algo = "newton"
    /\ Len(results) = 1
    /\ results[1] = args.x0
    /\ Cardinality(Warnings(out)) = 1

\* C4 as stated: for a linear system with nonsingular M and its jacobian,
\* solve() with algo 'leven' and maxIter = 50 returns x with
\* ||M*x - c|| <= tol.
C4_AsStated ==
    (self.algo = "leven" /\ self.maxx = 50 /\ IsLinearSystem(self) /\ pc = "idle") =>
        \A k \in 1..Len(results) : RLeq(Norm(CallF(self.F, results[k])), self.tol)

\* C5 as stated: a pass with rho <= b0 doubles mu, a pass with rho >= b1
\* halves mu, no other pass changes mu, and the damping search is left
\* only with a freshly computed rho >= b0.
C5_AsStated ==
    [][/\ PassStep =>
            /\ RLeq(roh', b0) => mu' = RMul(Rat(2, 1), mu)
            /\ RGeq(roh', b1) => mu' = RMul(Rat(1, 2), mu)
            /\ (~RLeq(roh', b0) /\ ~RGeq(roh', b1)) => mu' = mu
       /\ LeaveStep => (npass >= 1 /\ RGeq(roh, b0))]_vars

\* C5 amended: a pass with rho <= b0 doubles mu, a pass with rho >= b1
\* halves mu, no other pass changes mu, and the damping search is left
\* only with a freshly computed rho that is >= b0 or is nan (the 0/0 of a
\* zero step), the nan pass leaving mu unchanged.
C5_DampingRule ==
    [][/\ PassStep =>
            /\ RLeq(roh', b0) => mu' = RMul(Rat(2, 1), mu)
            /\ RGeq(roh', b1) => mu' = RMul(Rat(1, 2), mu)
            /\ (~RLeq(roh', b0) /\ ~RGeq(roh', b1)) => mu' = mu
       /\ LeaveStep => (npass >= 1 /\ (RGeq(roh, b0) \/ IsNaN(roh)))]_vars

\* two doubling passes and a halving pass made, about to leave the search
C5_Witness ==
    /\ pc = "inner"
    /\ npass = 3
    /\ RGeq(roh, b1)
    /\ mu = RMul(Rat(2, 1), mu0)

\* C6: i never exceeds maxx; when the outer loop is left, res <= tol or
\* i >= maxx or |res - res_alt| <= reltol; solve() returns the last
\* committed iterate x, whichever condition ended the loop.
C6_OuterLoop ==
    self.algo = "leven" =>
        /\ i <= self.maxx
        /\ pc = "inner" => i >= 1
        /\ pc \in {"ret", "idle"} /\ self.sol # None =>
              /\ \/ RLeq(res, self.tol)
                 \/ i >= self.maxx
                 \/ res_alt.e = 0 /\ RLeq(RAbs(RSub(res, res_alt)), self.reltol)
              /\ self.sol = Some(x)
        /\ pc = "idle" /\ Len(results) >= 1 => results[Len(results)] = x

\* a call that ended on the iteration limit alone, after two iterations
C6_Witness ==
    /\ self.algo = "leven"
    /\ pc = "idle"
    /\ Len(results) = 1
    /\ i = 2 /\ i = self.maxx
    /\ RLess(self.tol, res)
    /\ RLess(self.reltol, RAbs(RSub(res, res_alt)))
    /\ results[1] = x
    /\ x # self.x0

\* C7: the object's x0, tol, reltol, maxx and algo never change, every
\* leven() run starts from x = x0, mu = 0.1, roh = 0, res = 1,
\* res_alt = 1e10, i = 0, and all calls on one object return the same value.
C7_Idempotent ==
    /\ self.x0 = args.x0
    /\ self.tol = args.tol
    /\ self.reltol = args.tol
    /\ self.maxx = args.maxx
    /\ self.algo = args.algo
    /\ (pc = "outer" /\ i = 0) =>
          /\ x = args.x0
          /\ mu = Rat(1, 10)
          /\ roh = Rat(0, 1)
          /\ res = Rat(1, 1)
          /\ res_alt = [n |-> 1, d |-> 1, e |-> 10]
    /\ \A j, k \in 1..Len(results) : results[j] = results[k]

\* two finished leven calls on one object that moved away from x0
C7_Witness ==
    /\ self.algo = "leven"
    /\ Len(results) = 2
    /\ results[1] = results[2]
    /\ results[1] # args.x0
    /\ self.sol = Some(results[2])

\* C8: the step that completes an outer iteration sets res to the norm of
\* F at the iterate held before the step, res_alt to the old res, roh to
\* 0.0 and x to x + s, s being the step of the last damping pass of the
\* same iteration (at least one pass was made).
C8_LaggingResidual ==
    [][LeaveStep =>
          /\ res' = Norm(CallF(self.F, x))
          /\ res_alt' = res
          /\ roh' = Rat(0, 1)
          /\ x' = VAdd(x, s)
          /\ npass >= 1
          /\ Fx = CallF(self.F, x)
          /\ \E m \in {mu, RMul(Rat(2, 1), mu), RMul(Rat(1, 2), mu)} :
                s = StepOf(CallDF(self.DF, x), Fx, m)]_vars

\* an iteration completed whose res is not the residual at the new x
C8_Witness ==
    /\ pc = "outer"
    /\ i >= 2
    /\ npass >= 1
    /\ res # Norm(CallF(self.F, x))
    /\ res_alt # res0

====
